---- MODULE Spec2Model ----
(***************************************************************************)
(* Jumper Media Analytics API (src/api/main.py): the relational content    *)
(* the endpoints read (authors, posts, engagements) and the three          *)
(* handlers get_post_trends, get_author_trends and get_analytics_summary;  *)
(* srv holds the requests served statement by statement with their         *)
(* database connections, gen the run of the dataset generator              *)
(* (src/database/generate_large_dataset.py).                               *)
(*                                                                         *)
(* Time is counted in ticks; a calendar day is TicksPerDay ticks, so a     *)
(* timestamp can fall inside a day and DATE(t) is t \div TicksPerDay.      *)
(* timedelta(days=N) is N * TicksPerDay ticks.  Percentages and averages   *)
(* are kept in hundredths (5000 stands for 50.0), which is exactly what a  *)
(* value rounded to two decimals can hold.                                 *)
(***************************************************************************)
EXTENDS Integers, Sequences, FiniteSets, Bags, TLC

VARIABLES authors, posts, engagements, req, resp, calc, srv, gen

vars == <<authors, posts, engagements, req, resp, calc, srv, gen>>

(***************************************************************************)
(* Bounds of the model.                                                    *)
(***************************************************************************)
MaxEngagements == 2
MaxTime == 4
MaxDays == 1
MaxTotal == 150

\* ticks in one day of timedelta(days=...)
TicksPerDay == 2

AuthorIds == {1, 2}
PostIds == {1, 2}
Times == 0..MaxTime
\* values of the query parameter days: int (negative and zero are accepted)
DaysValues == (0 - 1)..MaxDays
\* the value datetime.now() takes: a time inside the second day, so that
\* timestamps before, at and after now exist
NowValues == {TicksPerDay + 1}

EngagementTypes == {"view", "like", "comment", "share"}

\* the SQL NULL of an outer join or of NULLIF
NULL == [null |-> TRUE]
NoRequest == [endpoint |-> "none"]
NoResponse == [status_code |-> 0]
NoCalc == [op |-> "none"]
NoServer == [requests |-> <<>>]
NoGenerator == [pc |-> "none"]

(***************************************************************************)
(* Helpers: SQL DATE(), timedelta, ORDER BY date.                          *)
(***************************************************************************)
DATE(t) == t \div TicksPerDay

timedelta(days) == days * TicksPerDay

RECURSIVE OrderByDate(_)
OrderByDate(S) ==
    IF S = {} THEN <<>>
    ELSE LET m == CHOOSE x \in S : \A y \in S : x <= y
         IN  <<m>> \o OrderByDate(S \ {m})

RECURSIVE SumTotal(_)
\* sum(row['total'] for row in period)
SumTotal(period) ==
    IF period = <<>> THEN 0
    ELSE Head(period).total + SumTotal(Tail(period))

RECURSIVE Count(_, _)
\* COUNT(*) over the rows of the set S, each with its number of copies in
\* the table B
Count(B, S) ==
    IF S = {} THEN 0
    ELSE LET r == CHOOSE x \in S : TRUE
         IN  CopiesIn(r, B) + Count(B, S \ {r})

(***************************************************************************)
(* The database content.  The API only reads it; rows are inserted by      *)
(* other clients of the database (the dataset generator, live traffic).    *)
(* The schema's foreign keys hold: a post names an existing author, an     *)
(* engagement names an existing post.  engagements is a bag of rows: the   *)
(* key engagement_id is only ever counted, so rows that differ in nothing  *)
(* else are copies of one element.                                         *)
(***************************************************************************)
InsertAuthor(a) ==
    /\ resp = NoResponse
    /\ a \notin authors
    /\ authors' = authors \cup {a}
    /\ UNCHANGED <<posts, engagements, req, resp, calc, srv, gen>>

InsertPost(p, a, t) ==
    /\ resp = NoResponse
    /\ a \in authors
    /\ \A q \in posts : q.post_id # p
    /\ posts' = posts \cup {[post_id |-> p, author_id |-> a, publish_timestamp |-> t]}
    /\ UNCHANGED <<authors, engagements, req, resp, calc, srv, gen>>

InsertEngagement(p, ty, t) ==
    /\ resp = NoResponse
    /\ BagCardinality(engagements) < MaxEngagements
    /\ \E q \in posts : q.post_id = p
    /\ engagements' = engagements (+)
           SetToBag({[post_id |-> p, type |-> ty, engaged_timestamp |-> t]})
    /\ UNCHANGED <<authors, posts, req, resp, calc, srv, gen>>

(***************************************************************************)
(* The trend queries.                                                      *)
(***************************************************************************)
\* one output row of GROUP BY DATE(engaged_timestamp) with the COUNT(*)
\* FILTER columns; date is the number of the day, which orders as the text
\* str(row['date']) of an ISO date does
TrendRow(rows, d) ==
    LET onDate == {e \in rows : DATE(e.engaged_timestamp) = d}
    IN  [date     |-> d,
         views    |-> Count(engagements, {e \in onDate : e.type = "view"}),
         likes    |-> Count(engagements, {e \in onDate : e.type = "like"}),
         comments |-> Count(engagements, {e \in onDate : e.type = "comment"}),
         shares   |-> Count(engagements, {e \in onDate : e.type = "share"}),
         total    |-> Count(engagements, onDate)]

\* SELECT ... GROUP BY DATE(engaged_timestamp) ORDER BY date over the rows
\* the WHERE clause kept
GroupByDate(rows) ==
    LET dates == OrderByDate({DATE(e.engaged_timestamp) : e \in rows})
    IN  [i \in 1..Len(dates) |-> TrendRow(rows, dates[i])]

\* WHERE post_id = %s AND engaged_timestamp >= %s
PostCurrentWhere(post_id, current_start) ==
    {e \in BagToSet(engagements) : /\ e.post_id = post_id
                         /\ e.engaged_timestamp >= current_start}

PostPreviousWhereUnbounded(post_id, previous_start, current_start) ==
    {e \in BagToSet(engagements) : /\ e.post_id = post_id
                         /\ e.engaged_timestamp >= previous_start}

\* WHERE post_id = %s AND engaged_timestamp >= %s AND engaged_timestamp < %s
PostPreviousWhere(post_id, previous_start, current_start) ==
    {e \in BagToSet(engagements) : /\ e.post_id = post_id
                         /\ e.engaged_timestamp >= previous_start
                         /\ e.engaged_timestamp < current_start}

AuthorCurrentWhereAnyAuthor(author_id, current_start) ==
    {e \in BagToSet(engagements) :
        /\ \E p \in posts : p.post_id = e.post_id
        /\ e.engaged_timestamp >= current_start}

\* FROM engagements e JOIN posts p ON e.post_id = p.post_id
\* WHERE p.author_id = %s AND e.engaged_timestamp >= %s
AuthorCurrentWhere(author_id, current_start) ==
    {e \in BagToSet(engagements) :
        /\ \E p \in posts : p.post_id = e.post_id /\ p.author_id = author_id
        /\ e.engaged_timestamp >= current_start}

\* ... AND e.engaged_timestamp >= %s AND e.engaged_timestamp < %s
AuthorPreviousWhere(author_id, previous_start, current_start) ==
    {e \in BagToSet(engagements) :
        /\ \E p \in posts : p.post_id = e.post_id /\ p.author_id = author_id
        /\ e.engaged_timestamp >= previous_start
        /\ e.engaged_timestamp < current_start}

(***************************************************************************)
(* change_percent (lines 157-162 and 194, 264-269 and 301).                *)
(***************************************************************************)
\* Python's round(x, 2) of num/den percent, as an integer number of
\* hundredths: the nearest hundredth, a tie going to the even one.  For
\* totals below 160 the float (current - previous) / previous * 100 is on a
\* tie only when it is exact, so this is what round() returns.
RoundHalfEven(num, den) ==
    LET q == num \div den
        r == num % den
    IN  IF 2 * r > den \/ (2 * r = den /\ q % 2 = 1) THEN q + 1 ELSE q

ChangePercentPlus100(current_total, previous_total) ==
    IF previous_total > 0
    THEN RoundHalfEven((current_total - previous_total) * 10000, previous_total)
    ELSE IF current_total > 0 THEN 10000 ELSE 0

ChangePercentTruncated(current_total, previous_total) ==
    IF previous_total > 0
    THEN ((current_total - previous_total) * 10000) \div previous_total
    ELSE 0

ChangePercentOfCurrent(current_total, previous_total) ==
    IF previous_total > 0 /\ current_total > 0
    THEN RoundHalfEven((current_total - previous_total) * 10000, current_total)
    ELSE 0

ChangePercent(current_total, previous_total) ==
    IF previous_total > 0
    THEN RoundHalfEven((current_total - previous_total) * 10000, previous_total)
    ELSE 0

(***************************************************************************)
(* except Exception as e: raise HTTPException(status_code=500,             *)
(* detail=str(e)).  HTTPException is a subclass of Exception, so the 404   *)
(* raised inside the try block is caught here as well.  detail is the pair *)
(* <<status_code, detail>> of the caught exception, standing for the text  *)
(* "404: Post not found" that str() gives.                                 *)
(***************************************************************************)
HTTPException(status_code, detail) ==
    [class |-> "HTTPException", status_code |-> status_code, detail |-> detail]

\* an error of the database driver (psycopg2), raised by the named operation
DatabaseError(operation) ==
    [class |-> "psycopg2.Error", detail |-> operation]

\* str(e)
Str(e) ==
    IF e.class = "HTTPException" THEN <<e.status_code, e.detail>>
    ELSE <<e.detail>>

ExceptException(e) ==
    [status_code |-> 500, detail |-> Str(e)]

(***************************************************************************)
(* get_post_trends and get_author_trends.  Attributes no query filters or  *)
(* counts on (title, name, category, ...) are left out of the rows.        *)
(***************************************************************************)
TrendsResponse(entity_id, current_period, previous_period) ==
    [status_code     |-> 200,
     entity_id       |-> entity_id,
     current_period  |-> current_period,
     previous_period |-> previous_period,
     change_percent  |-> ChangePercent(SumTotal(current_period),
                                       SumTotal(previous_period))]

get_post_trends(post_id, days, now) ==
    IF \A p \in posts : p.post_id # post_id
    THEN ExceptException(HTTPException(404, "Post not found"))
    ELSE LET current_start  == now - timedelta(days)
             previous_start == current_start - timedelta(days)
         IN  TrendsResponse(post_id,
                 GroupByDate(PostCurrentWhere(post_id, current_start)),
                 GroupByDate(PostPreviousWhere(post_id, previous_start,
                                               current_start)))

get_author_trends(author_id, days, now) ==
    IF author_id \notin authors
    THEN ExceptException(HTTPException(404, "Author not found"))
    ELSE LET current_start  == now - timedelta(days)
             previous_start == current_start - timedelta(days)
         IN  TrendsResponse(author_id,
                 GroupByDate(AuthorCurrentWhere(author_id, current_start)),
                 GroupByDate(AuthorPreviousWhere(author_id, previous_start,
                                                 current_start)))

GetPostTrends(post_id, days, now) ==
    /\ resp = NoResponse
    /\ req' = [endpoint |-> "post_trends", id |-> post_id, days |-> days,
               now |-> now]
    /\ resp' = get_post_trends(post_id, days, now)
    /\ UNCHANGED <<authors, posts, engagements, calc, srv, gen>>

GetAuthorTrends(author_id, days, now) ==
    /\ resp = NoResponse
    /\ req' = [endpoint |-> "author_trends", id |-> author_id, days |-> days,
               now |-> now]
    /\ resp' = get_author_trends(author_id, days, now)
    /\ UNCHANGED <<authors, posts, engagements, calc, srv, gen>>

\* the response has been sent; the next request can be served
Return ==
    /\ resp # NoResponse
    /\ req' = NoRequest
    /\ resp' = NoResponse
    /\ UNCHANGED <<authors, posts, engagements, calc, srv, gen>>

(***************************************************************************)
(* get_analytics_summary.                                                  *)
(***************************************************************************)
\* FROM authors a LEFT JOIN posts p ON a.author_id = p.author_id
\*                LEFT JOIN engagements e ON p.post_id = e.post_id
\* a row per engagement, per post without engagement (e is NULL) and per
\* author without post (p and e are NULL)
SummaryJoin ==
    {r \in [a : authors, p : posts, e : BagToSet(engagements)] :
        r.p.author_id = r.a /\ r.e.post_id = r.p.post_id}
    \cup
    {r \in [a : authors, p : posts, e : {NULL}] :
        /\ r.p.author_id = r.a
        /\ \A e \in BagToSet(engagements) : e.post_id # r.p.post_id}
    \cup
    {r \in [a : authors, p : {NULL}, e : {NULL}] :
        \A p \in posts : p.author_id # r.a}

\* the engagement rows among the joined rows
Engagements(rows) == {r.e : r \in {x \in rows : x.e # NULL}}

\* WHERE p.publish_timestamp >= %s OR p.publish_timestamp IS NULL
SummaryWhereBefore(start_date) ==
    {r \in SummaryJoin :
        r.p = NULL \/ r.p.publish_timestamp <= start_date}

SummaryWhere(start_date) ==
    {r \in SummaryJoin :
        r.p = NULL \/ r.p.publish_timestamp >= start_date}

\* COUNT(*) FILTER (WHERE e.type = ...): a NULL e.type fails the filter
CountType(rows, ty) ==
    Count(engagements, {e \in Engagements(rows) : e.type = ty})

\* SQL ROUND(x, 2) of a non-negative NUMERIC num/den, in hundredths: a tie
\* goes away from zero
RoundNumeric(num, den) == (2 * num * 100 + den) \div (2 * den)


AvgTruncated(total_engagements, total_posts) ==
    LET avg == IF total_posts = 0 THEN NULL
               ELSE [value |-> (total_engagements * 100) \div total_posts]
    IN  IF avg = NULL THEN 0 ELSE avg.value

\* ROUND(COUNT(e.engagement_id)::NUMERIC / NULLIF(COUNT(DISTINCT p.post_id), 0), 2)
\* is NULL when no post is counted; float(result[...] or 0) turns it to 0.0
AvgEngagementPerPost(total_engagements, total_posts) ==
    LET avg == IF total_posts = 0 THEN NULL
               ELSE [value |-> RoundNumeric(total_engagements, total_posts)]
    IN  IF avg = NULL THEN 0 ELSE avg.value

SummaryMetrics(rows) ==
    LET total_posts == Cardinality({r.p.post_id : r \in {x \in rows : x.p # NULL}})
        total_engagements == Count(engagements, Engagements(rows))
    IN  [status_code             |-> 200,
         total_authors           |-> Cardinality({r.a : r \in rows}),
         total_posts             |-> total_posts,
         total_engagements       |-> total_engagements,
         total_views             |-> CountType(rows, "view"),
         total_likes             |-> CountType(rows, "like"),
         total_comments          |-> CountType(rows, "comment"),
         total_shares            |-> CountType(rows, "share"),
         avg_engagement_per_post |->
             AvgEngagementPerPost(total_engagements, total_posts)]

get_analytics_summary(days, now) ==
    LET start_date == now - timedelta(days)
    IN  SummaryMetrics(SummaryWhere(start_date))

GetAnalyticsSummary(days, now) ==
    /\ resp = NoResponse
    /\ req' = [endpoint |-> "summary", id |-> 0, days |-> days, now |-> now]
    /\ resp' = get_analytics_summary(days, now)
    /\ UNCHANGED <<authors, posts, engagements, calc, srv, gen>>

(***************************************************************************)
(* The trend endpoints over a database that fills up; requests are served  *)
(* one at a time.  No trend query reads publish_timestamp, so posts are    *)
(* inserted with one publish time.                                         *)
(***************************************************************************)
Init ==
    /\ authors = {}
    /\ posts = {}
    /\ engagements = EmptyBag
    /\ req = NoRequest
    /\ resp = NoResponse
    /\ calc = NoCalc
    /\ srv = NoServer
    /\ gen = NoGenerator

Next ==
    \/ \E a \in AuthorIds : InsertAuthor(a)
    \/ \E p \in PostIds, a \in AuthorIds : InsertPost(p, a, 0)
    \/ \E p \in PostIds, ty \in EngagementTypes, t \in Times :
           InsertEngagement(p, ty, t)
    \/ \E p \in PostIds, d \in DaysValues, n \in NowValues :
           GetPostTrends(p, d, n)
    \/ \E a \in AuthorIds, d \in DaysValues, n \in NowValues :
           GetAuthorTrends(a, d, n)
    \/ Return

Spec == Init /\ [][Next]_vars

(***************************************************************************)
(* The summary endpoint.  Its query does not read engaged_timestamp, so    *)
(* engagements are inserted with one timestamp.                            *)
(***************************************************************************)
NextSummary ==
    \/ \E a \in AuthorIds : InsertAuthor(a)
    \/ \E p \in PostIds, a \in AuthorIds, t \in Times : InsertPost(p, a, t)
    \/ \E p \in PostIds, ty \in EngagementTypes : InsertEngagement(p, ty, MaxTime)
    \/ \E d \in DaysValues, n \in NowValues : GetAnalyticsSummary(d, n)
    \/ Return

SpecSummary == Init /\ [][NextSummary]_vars

(***************************************************************************)
(* The comparison of the two fetched periods on its own (lines 157-195):   *)
(* the two cursor.fetchall() results are the input, with window totals up  *)
(* to MaxTotal.                                                            *)
(***************************************************************************)
\* a fetched period whose rows' totals sum to n: no row, one row or two
FetchedPeriod(n) ==
    IF n = 0 THEN <<>>
    ELSE IF n = 1 THEN <<[total |-> 1]>>
    ELSE <<[total |-> n - 1], [total |-> 1]>>

\* the window totals: the small ones and one large enough for a quotient
\* within half a hundredth of a whole percent
LargeTotal == 20001

TotalValues == (0..MaxTotal) \cup {LargeTotal}

InitChange ==
    /\ authors = {}
    /\ posts = {}
    /\ engagements = EmptyBag
    /\ req = NoRequest
    /\ resp = NoResponse
    /\ srv = NoServer
    /\ gen = NoGenerator
    /\ calc \in [op : {"fetched"}, current_total : TotalValues,
                 previous_total : TotalValues]

CompareFetched ==
    /\ calc.op = "fetched"
    /\ calc' = [op |-> "compared",
                response |-> TrendsResponse(0,
                                 FetchedPeriod(calc.current_total),
                                 FetchedPeriod(calc.previous_total))]
    /\ UNCHANGED <<authors, posts, engagements, req, resp, srv, gen>>

NextChange == CompareFetched

SpecChange == InitChange /\ [][NextChange]_vars

(***************************************************************************)
(* The average of the summary on its own (lines 331 and 348): the two      *)
(* counts of the query are the input.  An engagement belongs to a post, so *)
(* engagements are counted only when a post is.                            *)
(***************************************************************************)
InitAvg ==
    /\ authors = {}
    /\ posts = {}
    /\ engagements = EmptyBag
    /\ req = NoRequest
    /\ resp = NoResponse
    /\ srv = NoServer
    /\ gen = NoGenerator
    /\ calc \in {c \in [op : {"counted"}, total_engagements : 0..MaxTotal,
                        total_posts : 0..MaxTotal] :
                    c.total_posts = 0 => c.total_engagements = 0}

AverageCounted ==
    /\ calc.op = "counted"
    /\ calc' = [op |-> "averaged",
                total_engagements |-> calc.total_engagements,
                total_posts |-> calc.total_posts,
                avg_engagement_per_post |->
                    AvgEngagementPerPost(calc.total_engagements,
                                         calc.total_posts)]
    /\ UNCHANGED <<authors, posts, engagements, req, resp, srv, gen>>

NextAvg == AverageCounted

SpecAvg == InitAvg /\ [][NextAvg]_vars

(***************************************************************************)
(* The handlers statement by statement, with the database connection and   *)
(* the failures of the driver.  Each request of RequestIds is served once: *)
(*   conn = get_db_connection()                       (before the try)     *)
(*   cursor = conn.cursor(...)                        (before the try)     *)
(*   try: the queries ... except Exception: raise HTTPException(500, ...)  *)
(*   finally: cursor.close(); conn.close()                                 *)
(* The database holds one author with one post and is not written to.      *)
(***************************************************************************)
RequestIds == {1, 2}

\* the queries a handler executes, in the order of its cursor.execute calls
Queries(endpoint) ==
    IF endpoint = "summary" THEN <<"summary">>
    ELSE <<"lookup", "current", "previous">>

\* the query that fails during a request, if one does
Faults(endpoint) ==
    {"none"} \cup {Queries(endpoint)[i] : i \in 1..Len(Queries(endpoint))}

IdleRequest ==
    [pc |-> "idle", endpoint |-> "none", id |-> 0, days |-> 0, now |-> 0,
     conn |-> "none", cursor |-> "none", failed |-> "none",
     executed |-> <<>>, response |-> NoResponse]

\* an exception raised before the try statement is entered leaves the
\* handler; the response is then not made by the handler
Unhandled(e) == [status_code |-> 500, detail |-> <<"Internal Server Error">>]

\* cursor.execute(query) raises: the statements after it are skipped and
\* the except clause runs
ExecuteFails(executed, query) ==
    [executed |-> Append(executed, query), failed |-> query,
     response |-> ExceptException(DatabaseError(query))]

Handler(endpoint, id, days, now) ==
    IF endpoint = "post_trends" THEN get_post_trends(id, days, now)
    ELSE IF endpoint = "author_trends" THEN get_author_trends(id, days, now)
    ELSE get_analytics_summary(days, now)

Found(endpoint, id) ==
    IF endpoint = "post_trends" THEN \E p \in posts : p.post_id = id
    ELSE IF endpoint = "author_trends" THEN id \in authors
    ELSE TRUE

TryBlockPartial(endpoint, id, days, now, fault) ==
    IF endpoint = "summary"
    THEN IF fault = "summary" THEN ExecuteFails(<<>>, "summary")
         ELSE [executed |-> <<"summary">>, failed |-> "none",
               response |-> Handler(endpoint, id, days, now)]
    ELSE IF fault = "lookup" THEN ExecuteFails(<<>>, "lookup")
    ELSE IF ~Found(endpoint, id)
    THEN [executed |-> <<"lookup">>, failed |-> "none",
          response |-> Handler(endpoint, id, days, now)]
    ELSE IF fault = "current" THEN ExecuteFails(<<"lookup">>, "current")
    ELSE IF fault = "previous"
    THEN [executed |-> <<"lookup", "current", "previous">>,
          failed |-> "previous",
          response |-> TrendsResponse(id,
              Handler(endpoint, id, days, now).current_period, <<>>)]
    ELSE [executed |-> <<"lookup", "current", "previous">>, failed |-> "none",
          response |-> Handler(endpoint, id, days, now)]

\* the try statement of a handler with its except clause: the queries run
\* in order, each once; the first that raises ends the block with the 500
\* of the except clause, and so does the 404 raised after the lookup
TryBlock(endpoint, id, days, now, fault) ==
    IF endpoint = "summary"
    THEN IF fault = "summary" THEN ExecuteFails(<<>>, "summary")
         ELSE [executed |-> <<"summary">>, failed |-> "none",
               response |-> Handler(endpoint, id, days, now)]
    ELSE IF fault = "lookup" THEN ExecuteFails(<<>>, "lookup")
    ELSE IF ~Found(endpoint, id)
    THEN [executed |-> <<"lookup">>, failed |-> "none",
          response |-> Handler(endpoint, id, days, now)]
    ELSE IF fault = "current" THEN ExecuteFails(<<"lookup">>, "current")
    ELSE IF fault = "previous"
    THEN ExecuteFails(<<"lookup", "current">>, "previous")
    ELSE [executed |-> <<"lookup", "current", "previous">>, failed |-> "none",
          response |-> Handler(endpoint, id, days, now)]

\* the request arrives and conn = get_db_connection() runs
GetDbConnection(r, endpoint, id, days, now, ok) ==
    /\ srv.requests[r].pc = "idle"
    /\ srv' = [srv EXCEPT !.requests[r] =
                 IF ok
                 THEN [IdleRequest EXCEPT !.pc = "connected",
                          !.endpoint = endpoint, !.id = id, !.days = days,
                          !.now = now, !.conn = "open"]
                 ELSE [IdleRequest EXCEPT !.pc = "done",
                          !.endpoint = endpoint, !.id = id, !.days = days,
                          !.now = now, !.failed = "connect",
                          !.response = Unhandled(DatabaseError("connect"))]]
    /\ UNCHANGED <<authors, posts, engagements, req, resp, calc, gen>>

\* cursor = conn.cursor(cursor_factory=RealDictCursor)
ConnCursor(r, ok) ==
    /\ srv.requests[r].pc = "connected"
    /\ srv' = [srv EXCEPT !.requests[r] =
                 IF ok
                 THEN [@ EXCEPT !.pc = "try", !.cursor = "open"]
                 ELSE [@ EXCEPT !.pc = "done", !.failed = "cursor",
                          !.response = Unhandled(DatabaseError("cursor"))]]
    /\ UNCHANGED <<authors, posts, engagements, req, resp, calc, gen>>

\* try: ... except Exception as e: ...
Try(r, fault) ==
    /\ srv.requests[r].pc = "try"
    /\ fault \in Faults(srv.requests[r].endpoint)
    /\ LET q == srv.requests[r]
           out == TryBlock(q.endpoint, q.id, q.days, q.now, fault)
       IN  srv' = [srv EXCEPT !.requests[r] =
                     [q EXCEPT !.pc = "finally", !.executed = out.executed,
                         !.failed = out.failed, !.response = out.response]]
    /\ UNCHANGED <<authors, posts, engagements, req, resp, calc, gen>>

\* finally: cursor.close(); conn.close()
Finally(r) ==
    /\ srv.requests[r].pc = "finally"
    /\ srv' = [srv EXCEPT !.requests[r] =
                 [@ EXCEPT !.pc = "done", !.cursor = "closed",
                     !.conn = "closed"]]
    /\ UNCHANGED <<authors, posts, engagements, req, resp, calc, gen>>

ServerEngagements ==
    {[post_id |-> 1, type |-> "view", engaged_timestamp |-> 0],
     [post_id |-> 1, type |-> "like", engaged_timestamp |-> MaxTime - 1]}

InitServer ==
    /\ authors = {1}
    /\ posts = {[post_id |-> 1, author_id |-> 1, publish_timestamp |-> 0]}
    /\ engagements \in {SetToBag(S) : S \in SUBSET ServerEngagements}
    /\ req = NoRequest
    /\ resp = NoResponse
    /\ calc = NoCalc
    /\ srv = [requests |-> [r \in RequestIds |-> IdleRequest]]
    /\ gen = NoGenerator

NextServer ==
    \/ \E r \in RequestIds, p \in PostIds, d \in DaysValues, n \in NowValues,
          ok \in BOOLEAN : GetDbConnection(r, "post_trends", p, d, n, ok)
    \/ \E r \in RequestIds, a \in AuthorIds, d \in DaysValues, n \in NowValues,
          ok \in BOOLEAN : GetDbConnection(r, "author_trends", a, d, n, ok)
    \/ \E r \in RequestIds, d \in DaysValues, n \in NowValues, ok \in BOOLEAN :
          GetDbConnection(r, "summary", 0, d, n, ok)
    \/ \E r \in RequestIds, ok \in BOOLEAN : ConnCursor(r, ok)
    \/ \E r \in RequestIds, fault \in Faults("post_trends") \cup Faults("summary") :
          Try(r, fault)
    \/ \E r \in RequestIds : Finally(r)

SpecServer == InitServer /\ [][NextServer]_vars

(***************************************************************************)
(* The dataset generator (src/database/generate_large_dataset.py): main()  *)
(* runs generate_authors, generate_users, generate_posts,                  *)
(* generate_engagements and refresh_materialized_views on one connection,  *)
(* statement by statement, and can be run again over the data of the run   *)
(* before.  The tables hold the sample rows from the start.  gen.committed *)
(* tells that the last statement was conn.commit(), so that the tables are *)
(* the committed state of the database.  Columns that no statement of the  *)
(* generator selects on (names, types, user_id, ...) are left out; the     *)
(* timestamps of a generated engagement are the subject of SpecEngagedTime *)
(* below.                                                                  *)
(***************************************************************************)
\* the row counts of a run (NUM_AUTHORS, NUM_USERS, NUM_POSTS,
\* NUM_ENGAGEMENTS), the batch size of 'if i % 1000 == 0' and the number of
\* runs, scaled down
NumAuthors == 1
NumUsers == 1
NumPosts == 1
NumEngagements == 2
CommitEvery == 2
MaxRuns == 2

\* the ids of the sample rows and the first generated id of each table
FirstSampleAuthor == 1
LastSampleAuthor == 3
FirstAuthorId == 4
FirstSampleUser == 501
LastSampleUser == 505
FirstUserId == 506
FirstSamplePost == 101
LastSamplePost == 103
FirstPostId == 104
FirstSampleEngagement == 2001
LastSampleEngagement == 2005
FirstEngagementId == 2006

SampleAuthors == FirstSampleAuthor..LastSampleAuthor
SampleUsers == FirstSampleUser..LastSampleUser
\* the sample rows reference each other: sample post 101 + k is written by
\* sample author 1 + k
SamplePosts ==
    {[post_id |-> p, author_id |-> FirstSampleAuthor + (p - FirstSamplePost)] :
        p \in FirstSamplePost..LastSamplePost}
\* the sample engagements are spread over the sample posts
SampleEngagements ==
    {[engagement_id |-> e,
      post_id |-> FirstSamplePost
                  + (e % (LastSamplePost - FirstSamplePost + 1))] :
        e \in FirstSampleEngagement..LastSampleEngagement}

\* DELETE FROM authors WHERE author_id > 3
DeleteAuthorsFrom3(rows) == {a \in rows : ~(a >= LastSampleAuthor)}

DeleteAuthors(rows) == {a \in rows : ~(a > LastSampleAuthor)}

\* DELETE FROM users WHERE user_id > 505
DeleteUsers(rows) == {u \in rows : ~(u > LastSampleUser)}

\* DELETE FROM posts WHERE post_id > 103
DeletePosts(rows) == {p \in rows : ~(p.post_id > LastSamplePost)}

\* DELETE FROM post_metadata WHERE post_id > 103
DeletePostMetadata(rows) == {p \in rows : ~(p > LastSamplePost)}

\* DELETE FROM engagements WHERE engagement_id > 2005
DeleteEngagements(rows) ==
    {e \in rows : ~(e.engagement_id > LastSampleEngagement)}

GenerateAuthorsDelete ==
    /\ gen.pc = "generate_authors"
    /\ gen' = [gen EXCEPT !.pc = "authors_insert", !.i = FirstAuthorId,
                  !.authors = DeleteAuthors(@), !.committed = FALSE]
    /\ UNCHANGED <<authors, posts, engagements, req, resp, calc, srv>>

\* for i in range(4, num_authors + 4): INSERT INTO authors
GenerateAuthorsInsert ==
    /\ gen.pc = "authors_insert"
    /\ gen.i < NumAuthors + FirstAuthorId
    /\ gen' = [gen EXCEPT !.i = @ + 1, !.authors = @ \cup {gen.i},
                  !.committed = FALSE]
    /\ UNCHANGED <<authors, posts, engagements, req, resp, calc, srv>>

GenerateAuthorsCommit ==
    /\ gen.pc = "authors_insert"
    /\ gen.i = NumAuthors + FirstAuthorId
    /\ gen' = [gen EXCEPT !.pc = "generate_users", !.committed = TRUE]
    /\ UNCHANGED <<authors, posts, engagements, req, resp, calc, srv>>

GenerateUsersDelete ==
    /\ gen.pc = "generate_users"
    /\ gen' = [gen EXCEPT !.pc = "users_insert", !.i = FirstUserId,
                  !.users = DeleteUsers(@), !.committed = FALSE]
    /\ UNCHANGED <<authors, posts, engagements, req, resp, calc, srv>>

GenerateUsersInsert ==
    /\ gen.pc = "users_insert"
    /\ gen.i < NumUsers + FirstUserId
    /\ gen' = [gen EXCEPT !.i = @ + 1, !.users = @ \cup {gen.i},
                  !.committed = FALSE]
    /\ UNCHANGED <<authors, posts, engagements, req, resp, calc, srv>>

GenerateUsersCommit ==
    /\ gen.pc = "users_insert"
    /\ gen.i = NumUsers + FirstUserId
    /\ gen' = [gen EXCEPT !.pc = "generate_posts", !.committed = TRUE]
    /\ UNCHANGED <<authors, posts, engagements, req, resp, calc, srv>>

GeneratePostsDeleteCommitted ==
    /\ gen.pc = "generate_posts"
    /\ gen' = [gen EXCEPT !.pc = "posts_insert", !.i = FirstPostId,
                  !.author_ids = gen.authors,
                  !.posts = DeletePosts(@),
                  !.post_metadata = DeletePostMetadata(@),
                  !.committed = TRUE]
    /\ UNCHANGED <<authors, posts, engagements, req, resp, calc, srv>>

\* SELECT author_id FROM authors; DELETE FROM posts ...; DELETE FROM
\* post_metadata ...
GeneratePostsDelete ==
    /\ gen.pc = "generate_posts"
    /\ gen' = [gen EXCEPT !.pc = "posts_insert", !.i = FirstPostId,
                  !.author_ids = gen.authors,
                  !.posts = DeletePosts(@),
                  !.post_metadata = DeletePostMetadata(@),
                  !.committed = FALSE]
    /\ UNCHANGED <<authors, posts, engagements, req, resp, calc, srv>>

\* for i in range(104, num_posts + 104): author_id =
\* random.choice(author_ids); INSERT INTO posts; INSERT INTO post_metadata
GeneratePostsInsert(author_id) ==
    /\ gen.pc = "posts_insert"
    /\ gen.i < NumPosts + FirstPostId
    /\ author_id \in gen.author_ids
    /\ gen' = [gen EXCEPT !.i = @ + 1,
                  !.posts = @ \cup {[post_id |-> gen.i,
                                     author_id |-> author_id]},
                  !.post_metadata = @ \cup {gen.i},
                  !.committed = FALSE]
    /\ UNCHANGED <<authors, posts, engagements, req, resp, calc, srv>>

GeneratePostsCommit ==
    /\ gen.pc = "posts_insert"
    /\ gen.i = NumPosts + FirstPostId
    /\ gen' = [gen EXCEPT !.pc = "generate_engagements", !.committed = TRUE]
    /\ UNCHANGED <<authors, posts, engagements, req, resp, calc, srv>>

\* SELECT post_id, publish_timestamp FROM posts; SELECT user_id FROM users;
\* DELETE FROM engagements ...
GenerateEngagementsDelete ==
    /\ gen.pc = "generate_engagements"
    /\ gen' = [gen EXCEPT !.pc = "engagements_insert",
                  !.i = FirstEngagementId,
                  !.post_ids = {p.post_id : p \in gen.posts},
                  !.engagements = DeleteEngagements(@),
                  !.committed = FALSE]
    /\ UNCHANGED <<authors, posts, engagements, req, resp, calc, srv>>

\* for i in range(2006, num_engagements + 2006): post_id, publish_time =
\* random.choice(posts); INSERT INTO engagements; if i % 1000 == 0:
\* conn.commit()
GenerateEngagementsInsert(post_id) ==
    /\ gen.pc = "engagements_insert"
    /\ gen.i < NumEngagements + FirstEngagementId
    /\ post_id \in gen.post_ids
    /\ gen' = [gen EXCEPT !.i = @ + 1,
                  !.engagements = @ \cup {[engagement_id |-> gen.i,
                                           post_id |-> post_id]},
                  !.committed = (gen.i % CommitEvery = 0)]
    /\ UNCHANGED <<authors, posts, engagements, req, resp, calc, srv>>

GenerateEngagementsCommit ==
    /\ gen.pc = "engagements_insert"
    /\ gen.i = NumEngagements + FirstEngagementId
    /\ gen' = [gen EXCEPT !.pc = "refresh_materialized_views",
                  !.committed = TRUE]
    /\ UNCHANGED <<authors, posts, engagements, req, resp, calc, srv>>

\* REFRESH MATERIALIZED VIEW ...; conn.commit(); conn.close()
RefreshMaterializedViews ==
    /\ gen.pc = "refresh_materialized_views"
    /\ gen' = [gen EXCEPT !.pc = "complete", !.committed = TRUE]
    /\ UNCHANGED <<authors, posts, engagements, req, resp, calc, srv>>

\* the script is started again
Main ==
    /\ gen.pc = "complete"
    /\ gen.run < MaxRuns
    /\ gen' = [gen EXCEPT !.pc = "generate_authors", !.run = @ + 1]
    /\ UNCHANGED <<authors, posts, engagements, req, resp, calc, srv>>

InitGenerator ==
    /\ authors = {}
    /\ posts = {}
    /\ engagements = EmptyBag
    /\ req = NoRequest
    /\ resp = NoResponse
    /\ calc = NoCalc
    /\ srv = NoServer
    /\ gen = [pc |-> "generate_authors", run |-> 1, i |-> 0,
              authors |-> SampleAuthors, users |-> SampleUsers,
              posts |-> SamplePosts,
              post_metadata |-> {p.post_id : p \in SamplePosts},
              engagements |-> SampleEngagements,
              author_ids |-> {}, post_ids |-> {}, committed |-> TRUE]

NextGenerator ==
    \/ GenerateAuthorsDelete
    \/ GenerateAuthorsInsert
    \/ GenerateAuthorsCommit
    \/ GenerateUsersDelete
    \/ GenerateUsersInsert
    \/ GenerateUsersCommit
    \/ GeneratePostsDelete
    \/ \E a \in FirstSampleAuthor..(NumAuthors + FirstAuthorId - 1) :
           GeneratePostsInsert(a)
    \/ GeneratePostsCommit
    \/ GenerateEngagementsDelete
    \/ \E p \in FirstSamplePost..(NumPosts + FirstPostId - 1) :
           GenerateEngagementsInsert(p)
    \/ GenerateEngagementsCommit
    \/ RefreshMaterializedViews
    \/ Main

SpecGenerator == InitGenerator /\ [][NextGenerator]_vars

(***************************************************************************)
(* The timestamp of one generated engagement (generate_engagements, lines  *)
(* 162-183), in hours: the post is chosen, hours_after_publish is drawn    *)
(* and capped, hour_adjustment is drawn and added, the row is inserted.    *)
(***************************************************************************)
\* the largest publish time of the chosen post and the largest value drawn
\* from random.expovariate(0.1), which has no upper limit
MaxPublishHour == 2
MaxExpovariate == 722

\* min(hours_after_publish, 720)
MaxLagHours == 720

\* range(-3, 4)
HourAdjustments == (0 - 3)..3

Min(a, b) == IF a < b THEN a ELSE b

EngagedTime(publish_time, expovariate, hour_adjustment) ==
    LET hours_after_publish == Min(expovariate, MaxLagHours)
        engaged_time == publish_time + hours_after_publish
    IN  engaged_time + hour_adjustment

InitEngagedTime ==
    /\ authors = {}
    /\ posts = {}
    /\ engagements = EmptyBag
    /\ req = NoRequest
    /\ resp = NoResponse
    /\ calc = NoCalc
    /\ srv = NoServer
    /\ gen \in [pc : {"chosen"}, publish_time : 0..MaxPublishHour]

InsertGeneratedEngagement(expovariate, hour_adjustment) ==
    /\ gen.pc = "chosen"
    /\ gen' = [pc |-> "inserted",
               publish_time |-> gen.publish_time,
               hour_adjustment |-> hour_adjustment,
               engaged_timestamp |-> EngagedTime(gen.publish_time,
                                         expovariate, hour_adjustment)]
    /\ UNCHANGED <<authors, posts, engagements, req, resp, calc, srv>>

NextEngagedTime ==
    \E expovariate \in 0..MaxExpovariate, hour_adjustment \in HourAdjustments :
        InsertGeneratedEngagement(expovariate, hour_adjustment)

SpecEngagedTime == InitEngagedTime /\ [][NextEngagedTime]_vars

(***************************************************************************)
(* The request being answered, read against the database it was answered   *)
(* from (the database does not change while a response is pending).        *)
(***************************************************************************)
IsTrends == req.endpoint \in {"post_trends", "author_trends"}

EntityExists ==
    IF req.endpoint = "post_trends"
    THEN \E p \in posts : p.post_id = req.id
    ELSE req.id \in authors

\* the engagement rows of the requested post, or of the requested author's posts
EntityEngagements ==
    IF req.endpoint = "post_trends"
    THEN {e \in BagToSet(engagements) : e.post_id = req.id}
    ELSE {e \in BagToSet(engagements) :
             \E p \in posts : p.post_id = e.post_id /\ p.author_id = req.id}

\* the bounds of the two windows of the specification: current is
\* [now - N, now), previous is [now - 2N, now - N)
WindowNow == req.now
WindowCurrentStart == req.now - req.days * TicksPerDay
WindowPreviousStart == req.now - 2 * req.days * TicksPerDay

\* the engagements the answered request counted in each period
CountedCurrent ==
    IF req.endpoint = "post_trends"
    THEN PostCurrentWhere(req.id, WindowCurrentStart)
    ELSE AuthorCurrentWhere(req.id, WindowCurrentStart)

CountedPrevious ==
    IF req.endpoint = "post_trends"
    THEN PostPreviousWhere(req.id, WindowPreviousStart, WindowCurrentStart)
    ELSE AuthorPreviousWhere(req.id, WindowPreviousStart, WindowCurrentStart)

(***************************************************************************)
(* C1: a trend request for a post_id / author_id that matches no row ends  *)
(* with HTTP 404, never with HTTP 500.                                     *)
(* The code answers 500: the HTTPException(404) is raised inside the try   *)
(* block and "except Exception" turns it into a 500.                       *)
(***************************************************************************)
C1_NotFoundIs404 ==
    (IsTrends /\ ~EntityExists) => resp.status_code = 404

(***************************************************************************)
(* C2: the previous window strictly precedes the current window, no        *)
(* engagement is counted in both, every engagement counted in              *)
(* previous_period is earlier than every one counted in current_period,    *)
(* and the two windows have the same duration (N days each: no counted     *)
(* engagement lies N days or more after the start of its window).          *)
(* The current query has no upper bound, so the current window is not N    *)
(* days long (see C3).                                                     *)
(***************************************************************************)
C2_WindowsDisjointEqualDuration ==
    (IsTrends /\ resp.status_code = 200) =>
        /\ CountedCurrent \cap CountedPrevious = {}
        /\ \A e \in CountedPrevious, f \in CountedCurrent :
               e.engaged_timestamp < f.engaged_timestamp
        /\ \A e \in CountedPrevious :
               e.engaged_timestamp - WindowPreviousStart < timedelta(req.days)
        /\ \A f \in CountedCurrent :
               f.engaged_timestamp - WindowCurrentStart < timedelta(req.days)

(***************************************************************************)
(* C3: an engagement of the entity is counted in current_period iff        *)
(* now - N <= t < now and in previous_period iff now - 2N <= t < now - N;  *)
(* an engagement at or after now is counted in neither.                    *)
(* The code counts every engagement with t >= now - N in current_period.   *)
(***************************************************************************)
C3_WindowMembership ==
    (IsTrends /\ resp.status_code = 200) =>
        /\ CountedCurrent =
               {e \in EntityEngagements :
                   /\ WindowCurrentStart <= e.engaged_timestamp
                   /\ e.engaged_timestamp < WindowNow}
        /\ CountedPrevious =
               {e \in EntityEngagements :
                   /\ WindowPreviousStart <= e.engaged_timestamp
                   /\ e.engaged_timestamp < WindowCurrentStart}

(***************************************************************************)
(* C4: for both trend endpoints, when the previous_period rows sum to 0    *)
(* the returned change_percent is exactly 0.0, whatever the current total, *)
(* and the request does not fail on a division.                            *)
(***************************************************************************)
C4_ZeroPreviousGivesZero ==
    (IsTrends /\ EntityExists) =>
        /\ resp.status_code = 200
        /\ SumTotal(resp.previous_period) = 0 => resp.change_percent = 0

C4_Witness ==
    /\ IsTrends
    /\ resp.status_code = 200
    /\ SumTotal(resp.previous_period) = 0
    /\ SumTotal(resp.current_period) > 0
    /\ resp.change_percent = 0

(***************************************************************************)
(* C5: when the previous total P is positive and the current total is C,   *)
(* change_percent is (C - P) / P * 100 rounded to two decimals, C and P    *)
(* being the sums of 'total' over the returned rows: change_percent is a   *)
(* number of hundredths no further than half a hundredth from the exact    *)
(* quotient.  P = 100 and C = 150 give 50.0.                               *)
(***************************************************************************)
Abs(x) == IF x < 0 THEN 0 - x ELSE x

C5_ChangePercentFormula ==
    calc.op = "compared" =>
        LET C == SumTotal(calc.response.current_period)
            P == SumTotal(calc.response.previous_period)
        IN  P > 0 =>
              /\ 2 * Abs(calc.response.change_percent * P - 10000 * (C - P)) <= P
              /\ (P = 100 /\ C = 150) => calc.response.change_percent = 5000

C5_Witness ==
    /\ calc.op = "compared"
    /\ SumTotal(calc.response.current_period) = 150
    /\ SumTotal(calc.response.previous_period) = 100
    /\ calc.response.change_percent = 5000

(***************************************************************************)
(* C6: a date is a row of current_period (previous_period) iff the entity  *)
(* has an engagement on that date inside that window, every row has        *)
(* total >= 1, and a window without engagement gives an empty list.        *)
(* A date that only has engagements at or after now is a row of            *)
(* current_period (the missing upper bound of C3).                         *)
(***************************************************************************)
Dates(period) == {period[i].date : i \in 1..Len(period)}

InCurrentWindow(e) ==
    WindowCurrentStart <= e.engaged_timestamp /\ e.engaged_timestamp < WindowNow

InPreviousWindow(e) ==
    /\ WindowPreviousStart <= e.engaged_timestamp
    /\ e.engaged_timestamp < WindowCurrentStart

C6_SparseSeries ==
    (IsTrends /\ resp.status_code = 200) =>
        /\ Dates(resp.current_period) =
               {DATE(e.engaged_timestamp) :
                   e \in {x \in EntityEngagements : InCurrentWindow(x)}}
        /\ Dates(resp.previous_period) =
               {DATE(e.engaged_timestamp) :
                   e \in {x \in EntityEngagements : InPreviousWindow(x)}}
        /\ \A i \in 1..Len(resp.current_period) : resp.current_period[i].total >= 1
        /\ \A i \in 1..Len(resp.previous_period) : resp.previous_period[i].total >= 1

(***************************************************************************)
(* C7: in every row, views, likes, comments and shares are the numbers of  *)
(* the entity's engagements of that type on the row's date within the      *)
(* window, total is the number of all of them, and total = views + likes + *)
(* comments + shares.                                                      *)
(* A row of current_period also counts the engagements of its date that    *)
(* lie at or after now (the missing upper bound of C3).                    *)
(***************************************************************************)
\* the number of the entity's engagements of the types tys on date d among
\* those of the set window
OnDate(window, d, tys) ==
    Count(engagements,
          {e \in window : DATE(e.engaged_timestamp) = d /\ e.type \in tys})

RowCounts(row, window) ==
    /\ row.views = OnDate(window, row.date, {"view"})
    /\ row.likes = OnDate(window, row.date, {"like"})
    /\ row.comments = OnDate(window, row.date, {"comment"})
    /\ row.shares = OnDate(window, row.date, {"share"})
    /\ row.total = OnDate(window, row.date, EngagementTypes)
    /\ row.total = row.views + row.likes + row.comments + row.shares

C7_RowCounts ==
    (IsTrends /\ resp.status_code = 200) =>
        /\ \A i \in 1..Len(resp.current_period) :
               RowCounts(resp.current_period[i],
                         {x \in EntityEngagements : InCurrentWindow(x)})
        /\ \A i \in 1..Len(resp.previous_period) :
               RowCounts(resp.previous_period[i],
                         {x \in EntityEngagements : InPreviousWindow(x)})

(***************************************************************************)
(* C8: for a fixed database content and a fixed now, every total of the    *)
(* summary is non-decreasing in the window N: N1 <= N2 implies that each   *)
(* total for N1 is at most the same total for N2.                          *)
(***************************************************************************)
IsSummary == req.endpoint = "summary"

TotalsAtMost(small, large) ==
    /\ small.total_authors <= large.total_authors
    /\ small.total_posts <= large.total_posts
    /\ small.total_engagements <= large.total_engagements
    /\ small.total_views <= large.total_views
    /\ small.total_likes <= large.total_likes
    /\ small.total_comments <= large.total_comments
    /\ small.total_shares <= large.total_shares

C8_SummaryMonotone ==
    (IsSummary /\ resp.status_code = 200) =>
        \A N2 \in DaysValues :
            req.days <= N2 =>
                TotalsAtMost(resp, get_analytics_summary(N2, req.now))

C8_Witness ==
    /\ IsSummary
    /\ resp.status_code = 200
    /\ \E N2 \in DaysValues :
          /\ req.days < N2
          /\ resp.total_posts < get_analytics_summary(N2, req.now).total_posts
          /\ resp.total_engagements <
                 get_analytics_summary(N2, req.now).total_engagements

(***************************************************************************)
(* C9: the summary restricts its totals to the posts published within the  *)
(* trailing N days (now - N <= publish_timestamp <= now); posts and        *)
(* authors without engagement still count in total_posts and               *)
(* total_authors and add nothing to total_engagements or to the totals per *)
(* type.                                                                   *)
(* The WHERE clause has no upper bound: a post whose publish_timestamp is  *)
(* after now is counted, with its engagements.                             *)
(***************************************************************************)
TrailingPosts ==
    {p \in posts : /\ req.now - req.days * TicksPerDay <= p.publish_timestamp
                   /\ p.publish_timestamp <= req.now}

TrailingEngagements(tys) ==
    {e \in BagToSet(engagements) :
        /\ \E p \in TrailingPosts : p.post_id = e.post_id
        /\ e.type \in tys}

C9_SummaryOverTrailingPosts ==
    (IsSummary /\ resp.status_code = 200) =>
        /\ resp.total_posts = Cardinality(TrailingPosts)
        /\ resp.total_authors >=
               Cardinality({p.author_id : p \in TrailingPosts})
        /\ resp.total_engagements =
               Count(engagements, TrailingEngagements(EngagementTypes))
        /\ resp.total_views = Count(engagements, TrailingEngagements({"view"}))
        /\ resp.total_likes = Count(engagements, TrailingEngagements({"like"}))
        /\ resp.total_comments =
               Count(engagements, TrailingEngagements({"comment"}))
        /\ resp.total_shares = Count(engagements, TrailingEngagements({"share"}))

(***************************************************************************)
(* C10: the summary returns avg_engagement_per_post = 0 when no post is in *)
(* the window (total_posts = 0), without failing; when total_posts > 0 it  *)
(* returns total_engagements / total_posts rounded to two decimals (a      *)
(* number of hundredths no further than half a hundredth from the          *)
(* quotient).                                                              *)
(***************************************************************************)
C10_AvgEngagementPerPost ==
    calc.op = "averaged" =>
        /\ calc.total_posts = 0 => calc.avg_engagement_per_post = 0
        /\ calc.total_posts > 0 =>
               2 * Abs(calc.avg_engagement_per_post * calc.total_posts
                       - 100 * calc.total_engagements) <= calc.total_posts

C10_Witness ==
    /\ calc.op = "averaged"
    /\ calc.total_posts = 0
    /\ calc.avg_engagement_per_post = 0

(***************************************************************************)
(* The requests served statement by statement (SpecServer).                *)
(***************************************************************************)
\* the requests whose try statement has run
Tried == {r \in RequestIds : srv.requests[r].pc \in {"finally", "done"}
                              /\ srv.requests[r].cursor # "none"}

\* the first n elements of a sequence
Prefix(seq, n) == [i \in 1..n |-> seq[i]]

\* the position of a query in the order of a handler's queries
QueryIndex(endpoint, query) ==
    CHOOSE i \in 1..Len(Queries(endpoint)) : Queries(endpoint)[i] = query

\* C11: when a query of a request fails, the request ends with the HTTP 500
\* that carries the error string, the failed query was executed once and no
\* query after it; trend or summary data (status 200) is returned only when
\* every query of the request was executed and none failed.
C11_QueryFailureGives500 ==
    \A r \in Tried :
        LET q == srv.requests[r]
        IN  /\ q.failed # "none" =>
                /\ q.response = [status_code |-> 500,
                                 detail |-> Str(DatabaseError(q.failed))]
                /\ q.executed = Prefix(Queries(q.endpoint),
                                       QueryIndex(q.endpoint, q.failed))
            /\ q.response.status_code = 200 =>
                /\ q.failed = "none"
                /\ q.executed = Queries(q.endpoint)
                /\ q.response = Handler(q.endpoint, q.id, q.days, q.now)
            /\ q.response.status_code \in {200, 500}

C11_Witness ==
    \E r \in RequestIds :
        /\ srv.requests[r].pc = "done"
        /\ srv.requests[r].failed = "previous"
        /\ srv.requests[r].response.status_code = 500
        /\ \E o \in RequestIds :
               /\ srv.requests[o].pc = "done"
               /\ srv.requests[o].response.status_code = 200

OpenConnections ==
    Cardinality({r \in RequestIds : srv.requests[r].conn = "open"})

\* a request is in flight from the acquisition of its connection until the
\* handler is left
InFlight ==
    Cardinality({r \in RequestIds :
                    srv.requests[r].pc \in {"connected", "try", "finally"}})

\* C12: the connection a request opened is closed once the request has
\* finished, on every exit path, so the number of open connections equals
\* the number of requests in flight.
C12_ConnectionReleased ==
    /\ \A r \in RequestIds :
           srv.requests[r].pc = "done" => srv.requests[r].conn # "open"
    /\ OpenConnections = InFlight

\* C15: every failure of a request, that of opening the connection and of
\* creating the cursor included, is answered by the except clause of the
\* handler: HTTP 500 with the error string.
C15_AllFailuresCaught ==
    \A r \in RequestIds :
        LET q == srv.requests[r]
        IN  (q.pc = "done" /\ q.failed # "none") =>
                q.response = ExceptException(DatabaseError(q.failed))

(***************************************************************************)
(* The dataset generator (SpecGenerator).                                  *)
(***************************************************************************)
\* C13: in every committed state of the database reached while the
\* generator runs, a second run over the data of the first included, every
\* engagement row references an existing post and every post row an
\* existing author.
C13_ReferentialIntegrity ==
    gen.committed =>
        /\ \A e \in gen.engagements :
               \E p \in gen.posts : p.post_id = e.post_id
        /\ \A p \in gen.posts : p.author_id \in gen.authors

\* the posts have been generated again and committed under the engagements
\* of the run before
C13_Witness ==
    /\ gen.run = 2
    /\ gen.committed
    /\ gen.pc = "generate_engagements"
    /\ \E e \in gen.engagements :
           e.engagement_id > LastSampleEngagement
           /\ e.post_id > LastSamplePost

\* C17: no step of a run deletes or changes a sample row (authors 1-3,
\* users 501-505, posts and post_metadata 101-103, engagements 2001-2005),
\* and every generated row has an id above the sample range of its table.
C17_SampleRowsUnchanged ==
    /\ SampleAuthors \subseteq gen.authors
    /\ SampleUsers \subseteq gen.users
    /\ SamplePosts \subseteq gen.posts
    /\ {p.post_id : p \in SamplePosts} \subseteq gen.post_metadata
    /\ SampleEngagements \subseteq gen.engagements
    /\ \A a \in gen.authors \ SampleAuthors : a > LastSampleAuthor
    /\ \A u \in gen.users \ SampleUsers : u > LastSampleUser
    /\ \A p \in gen.posts \ SamplePosts : p.post_id > LastSamplePost
    /\ \A p \in gen.post_metadata \ {q.post_id : q \in SamplePosts} :
           p > LastSamplePost
    /\ \A e \in gen.engagements \ SampleEngagements :
           e.engagement_id > LastSampleEngagement

\* the deletes of a second run have acted on the rows of the first
C17_Witness ==
    /\ gen.run = 2
    /\ gen.pc = "engagements_insert"
    /\ gen.i = FirstEngagementId
    /\ gen.authors # SampleAuthors
    /\ gen.users # SampleUsers
    /\ gen.posts # SamplePosts

(***************************************************************************)
(* The timestamp of a generated engagement (SpecEngagedTime).              *)
(***************************************************************************)
\* C14: the stored engaged_timestamp of a generated engagement is at most
\* the maximum lag of 720 hours after the publish timestamp of its post.
C14_LagCapped ==
    gen.pc = "inserted" =>
        gen.engaged_timestamp - gen.publish_time <= MaxLagHours

\* C16: the stored engaged_timestamp of a generated engagement is never
\* earlier than the publish timestamp of its post.
C16_EngagedAfterPublish ==
    gen.pc = "inserted" => gen.engaged_timestamp >= gen.publish_time

(***************************************************************************)
(* The comparison of the periods (SpecChange), the range of change_percent.*)
(***************************************************************************)
\* C18: change_percent >= -100.0; change_percent = -100.0 exactly when the
\* previous-window total is positive and the current-window total is 0;
\* change_percent is negative only if the current total is below a positive
\* previous total.
C18_ChangePercentRange ==
    calc.op = "compared" =>
        LET C == SumTotal(calc.response.current_period)
            P == SumTotal(calc.response.previous_period)
            change_percent == calc.response.change_percent
        IN  /\ change_percent >= 0 - 10000
            /\ change_percent = 0 - 10000 <=> (P > 0 /\ C = 0)
            /\ change_percent < 0 => (P > 0 /\ C < P)

\* C18 as the code has it: change_percent >= -100.0; it is -100.0 whenever
\* the previous total is positive and the current total is 0, and only if
\* the previous total is positive and the current total is at most
\* 1/20000 of it (the quotient then rounds to -100.0); change_percent is
\* negative only if the current total is below a positive previous total.
C18_ChangePercentRangeRounded ==
    calc.op = "compared" =>
        LET C == SumTotal(calc.response.current_period)
            P == SumTotal(calc.response.previous_period)
            change_percent == calc.response.change_percent
        IN  /\ change_percent >= 0 - 10000
            /\ (P > 0 /\ C = 0) => change_percent = 0 - 10000
            /\ change_percent = 0 - 10000 => (P > 0 /\ 20000 * C <= P)
            /\ change_percent < 0 => (P > 0 /\ C < P)

C18_Witness ==
    /\ calc.op = "compared"
    /\ SumTotal(calc.response.previous_period) = LargeTotal
    /\ SumTotal(calc.response.current_period) = 1
    /\ calc.response.change_percent = 0 - 10000

(***************************************************************************)
(* The two trend endpoints against each other (Spec).                      *)
(***************************************************************************)
\* the posts of the author of an author-trends request and the post trends
\* of one of them for the same now and days
AuthorPosts == {p.post_id : p \in {q \in posts : q.author_id = req.id}}

PostTrends(post_id) == get_post_trends(post_id, req.days, req.now)

\* the value of a field on a date in a series; no row counts as 0
FieldOn(period, d, field) ==
    IF \E i \in 1..Len(period) : period[i].date = d
    THEN period[CHOOSE i \in 1..Len(period) : period[i].date = d][field]
    ELSE 0

\* the rows of one series of the post trends of the posts ps, one post
\* after the other
RECURSIVE RowsOfPosts(_, _)
RowsOfPosts(ps, series) ==
    IF ps = {} THEN <<>>
    ELSE LET p == CHOOSE x \in ps : TRUE
         IN  PostTrends(p)[series] \o RowsOfPosts(ps \ {p}, series)

\* the sum of a field over the rows of a date
RECURSIVE SumField(_, _, _)
SumField(rows, d, field) ==
    IF rows = <<>> THEN 0
    ELSE (IF Head(rows).date = d THEN Head(rows)[field] ELSE 0)
         + SumField(Tail(rows), d, field)

TrendFields == {"views", "likes", "comments", "shares", "total"}

\* C19: for the same now and days, every per-date field of the author's
\* current_period and previous_period is the sum of that field on that
\* date over the post trends of the author's posts, and the author's window
\* totals are the sums of the posts' window totals.
C19_AuthorTrendsAggregatePosts ==
    (req.endpoint = "author_trends" /\ resp.status_code = 200) =>
        \A series \in {"current_period", "previous_period"} :
            LET rows == RowsOfPosts(AuthorPosts, series)
            IN  /\ \A d \in DATE(0)..DATE(MaxTime), field \in TrendFields :
                       FieldOn(resp[series], d, field) = SumField(rows, d, field)
                /\ SumTotal(resp[series]) = SumTotal(rows)

\* two posts of the author each contribute to one row of the author
C19_Witness ==
    /\ req.endpoint = "author_trends"
    /\ resp.status_code = 200
    /\ Cardinality(AuthorPosts) = 2
    /\ \E i \in 1..Len(resp.current_period) :
           /\ resp.current_period[i].total = 2
           /\ \A p \in AuthorPosts :
                  FieldOn(PostTrends(p).current_period,
                          resp.current_period[i].date, "total") = 1

\* the dates of a series are distinct and ascending
Ascending(period) ==
    \A i, j \in 1..Len(period) : i < j => period[i].date < period[j].date

\* C20: a date is in both current_period and previous_period of a trend
\* response only if it is the calendar date that contains now - N, so at
\* most one date is shared; within each series the dates are distinct and
\* ascending.
C20_SharedDate ==
    (IsTrends /\ resp.status_code = 200) =>
        LET shared == Dates(resp.current_period) \cap Dates(resp.previous_period)
        IN  /\ \A d \in shared : d = DATE(WindowCurrentStart)
            /\ Cardinality(shared) <= 1
            /\ Ascending(resp.current_period)
            /\ Ascending(resp.previous_period)

\* the date of now - N is a row of both series
C20_Witness ==
    /\ IsTrends
    /\ resp.status_code = 200
    /\ DATE(WindowCurrentStart) \in
           Dates(resp.current_period) \cap Dates(resp.previous_period)

====
